---- MODULE Spec2Model ----
(***************************************************************************)
(* prc2bin: extraction of the resources of a PalmOS PRC file.              *)
(*                                                                         *)
(* The model follows extract_resources of main.py statement by statement:  *)
(* the input file is a sequence of bytes, the open file object is a read   *)
(* position, and the output is a small file system (directories created    *)
(* and files written) addressed relative to the output directory.          *)
(* Text is a sequence of one-character strings, so that formatting, the    *)
(* printable substitution, lower-casing and path splitting are computed.   *)
(***************************************************************************)
EXTENDS Integers, Sequences, FiniteSets, TLC

\* ------------------------------------------------------------------ bounds
\* Largest num_records of a generated input.
MaxRecords == 2
\* Largest number of payload bytes that follow the directory.
MaxPayload == 2

\* --------------------------------------------------------------- constants
\* fp.read(78): size of the PRC header.
HeaderSize == 78
\* 4-byte name + 2-byte id + 4-byte offset of one resource header.
DescSize == 10

\* -------------------------------------------------------------------- text
\* chr(b) for b in 32..126, in order (the double quote, the backslash and the
\* back quote are written as the tokens <dquote>, <bslash> and <bquote>).
PrintableChars ==
    <<" ", "!", "<dquote>", "#", "$", "%", "&", "'", "(", ")", "*", "+", ",", "-", ".", "/",
       "0", "1", "2", "3", "4", "5", "6", "7", "8", "9", ":", ";", "<", "=", ">", "?",
       "@", "A", "B", "C", "D", "E", "F", "G", "H", "I", "J", "K", "L", "M", "N", "O",
       "P", "Q", "R", "S", "T", "U", "V", "W", "X", "Y", "Z", "[", "<bslash>", "]", "^", "_",
       "<bquote>", "a", "b", "c", "d", "e", "f", "g", "h", "i", "j", "k", "l", "m", "n", "o",
       "p", "q", "r", "s", "t", "u", "v", "w", "x", "y", "z", "{", "|", "}", "~" >>

chr(b) == PrintableChars[b - 31]

ord(c) == CHOOSE b \in 32..126 : PrintableChars[b - 31] = c

\* str.lower() restricted to ASCII text.
str_lower(s) == [k \in DOMAIN s |-> IF ord(s[k]) \in 65..90 THEN chr(ord(s[k]) + 32) ELSE s[k]]

\* ''.join(chr(b) if 32 <= b <= 126 else '?' for b in res.name)
name_str_of(name) == [k \in DOMAIN name |-> IF 32 <= name[k] /\ name[k] <= 126 THEN chr(name[k]) ELSE "?"]

HexDigitsLower == <<"0", "1", "2", "3", "4", "5", "6", "7", "8", "9", "a", "b", "c", "d", "e", "f">>

HexDigitsUpper == <<"0", "1", "2", "3", "4", "5", "6", "7", "8", "9", "A", "B", "C", "D", "E", "F">>

RECURSIVE hex_digits(_, _)
hex_digits(v, digits) == IF v < 16 THEN <<digits[v + 1]>> ELSE Append(hex_digits(v \div 16, digits), digits[(v % 16) + 1])

RECURSIVE zero_pad(_, _)
zero_pad(s, width) == IF Len(s) >= width THEN s ELSE zero_pad(<<"0">> \o s, width)

\* Variant of format_04x: the X conversion, upper-case digits.
format_04x_upper(v) == zero_pad(hex_digits(v, HexDigitsUpper), 4)

\* f"{res.id:04x}"
format_04x(v) == zero_pad(hex_digits(v, HexDigitsLower), 4)

BinSuffix == <<".", "b", "i", "n">>

HdrSuffix == <<".", "h", "d", "r">>

RESOURCE_TYPE_NAMES ==
       (<<"c", "o", "d", "e">> :> <<"c", "o", "d", "e">>)
    @@ (<<"d", "a", "t", "a">> :> <<"d", "a", "t", "a">>)
    @@ (<<"p", "r", "e", "f">> :> <<"p", "r", "e", "f", "e", "r", "e", "n", "c", "e", "s">>)
    @@ (<<"N", "F", "N", "T">> :> <<"f", "o", "n", "t", "s">>)
    @@ (<<"t", "F", "R", "M">> :> <<"f", "o", "r", "m", "s">>)
    @@ (<<"t", "S", "T", "R">> :> <<"s", "t", "r", "i", "n", "g", "s">>)
    @@ (<<"t", "S", "T", "L">> :> <<"s", "t", "r", "i", "n", "g", "-", "l", "i", "s", "t", "s">>)
    @@ (<<"T", "a", "l", "t">> :> <<"a", "l", "e", "r", "t", "s">>)
    @@ (<<"T", "b", "m", "p">> :> <<"b", "i", "t", "m", "a", "p", "s">>)
    @@ (<<"t", "A", "I", "B">> :> <<"a", "p", "p", "-", "i", "c", "o", "n", "s">>)
    @@ (<<"t", "A", "I", "N">> :> <<"a", "p", "p", "-", "i", "n", "f", "o">>)
    @@ (<<"c", "l", "u", "t">> :> <<"c", "o", "l", "o", "r", "-", "t", "a", "b", "l", "e", "s">>)
    @@ (<<"x", "l", "o", "c">> :> <<"l", "o", "c", "a", "l", "e", "s">>)
    @@ (<<"g", "d", "e", "f">> :> <<"g", "r", "a", "p", "h", "i", "c", "s", "-", "d", "e", "f", "s">>)
    @@ (<<"t", "v", "e", "r">> :> <<"v", "e", "r", "s", "i", "o", "n">>)
    @@ (<<"T", "b", "t", "n">> :> <<"b", "u", "t", "t", "o", "n", "s">>)
    @@ (<<"t", "M", "N", "U">> :> <<"m", "e", "n", "u", "s">>)
    @@ (<<"t", "I", "C", "N">> :> <<"i", "c", "o", "n", "s">>)
    @@ (<<"t", "L", "S", "T">> :> <<"l", "i", "s", "t", "s">>)
    @@ (<<"t", "F", "B", "M">> :> <<"f", "o", "r", "m", "-", "b", "i", "t", "m", "a", "p", "s">>)
    @@ (<<"t", "g", "r", "b">> :> <<"g", "r", "a", "f", "f", "i", "t", "i">>)
    @@ (<<"w", "r", "d", "l">> :> <<"w", "o", "r", "d", "-", "l", "i", "s", "t", "s">>)
    @@ (<<"b", "o", "o", "t">> :> <<"b", "o", "o", "t", "-", "c", "o", "d", "e">>)
    @@ (<<"s", "i", "l", "k">> :> <<"s", "i", "l", "k", "-", "s", "c", "r", "e", "e", "n">>)

\* RESOURCE_TYPE_NAMES.get(type_code, type_code.lower())
get_resource_type_dir(type_code) ==
    IF type_code \in DOMAIN RESOURCE_TYPE_NAMES THEN RESOURCE_TYPE_NAMES[type_code] ELSE str_lower(type_code)

\* ------------------------------------------------------------------- bytes
RECURSIVE unpack_be(_)
\* struct.unpack('>H' / '>L', data)[0]: big-endian unsigned value.
unpack_be(data) == IF data = <<>> THEN 0 ELSE unpack_be(SubSeq(data, 1, Len(data) - 1)) * 256 + data[Len(data)]

\* Variant of unpack_accepts: a decoder that takes a short buffer as well.
unpack_accepts_short(data, size) == Len(data) <= size

\* struct.unpack raises struct.error unless the buffer has exactly the size
\* of the format.
unpack_accepts(data, size) == Len(data) = size

\* Variant of header_complete: a short header is accepted.
header_complete_short(data) == Len(data) <= HeaderSize

\* len(data) != 78 raises ValueError.
header_complete(data) == Len(data) = HeaderSize

Min(a, b) == IF a < b THEN a ELSE b

\* fp.read(n) of a buffered binary file at position p (0-based): at most n
\* bytes for n >= 0, everything up to the end of the file for n = -1.
\* (n < -1 raises ValueError, see read_raises.)
fp_read(f, p, n) ==
    IF n = -1 THEN SubSeq(f, p + 1, Len(f)) ELSE SubSeq(f, p + 1, Min(p + n, Len(f)))

\* BufferedReader.read: "read length must be non-negative or -1".
read_raises(n) == n < -1

\* ------------------------------------------------------------------- paths
\* A pathlib path below output_dir is the sequence of its parts after
\* output_dir.  Joining a text splits it at "/" and drops the empty and the
\* "." parts, as PurePosixPath does; ".." parts are kept.
RECURSIVE split_slash(_, _, _)
split_slash(s, k, cur) ==
    IF k > Len(s) THEN <<cur>>
    ELSE IF s[k] = "/" THEN <<cur>> \o split_slash(s, k + 1, <<>>)
    ELSE split_slash(s, k + 1, Append(cur, s[k]))

DotDot == <<".", ".">>

path_parts(s) == SelectSeq(split_slash(s, 1, <<>>), LAMBDA c : c # <<>> /\ c # <<".">>)

\* path / text  (the text never starts with "/" for the inputs generated here)
path_join(path, s) == path \o path_parts(s)

\* output_dir itself
output_dir == <<>>

\* A place in the file system, relative to the output directory: `up' levels
\* above it, then down through `comps'.  The operating system resolves the
\* parts of a path one by one; ".." moves to the parent directory.
Loc(up, comps) == [up |-> up, comps |-> comps]

OutputRoot == Loc(0, <<>>)

NoEnt == Loc(-1, <<>>)

loc_parent(l) == IF l.comps = <<>> THEN Loc(l.up + 1, <<>>) ELSE Loc(l.up, SubSeq(l.comps, 1, Len(l.comps) - 1))

loc_step(l, part) == IF part = DotDot THEN loc_parent(l) ELSE Loc(l.up, Append(l.comps, part))

\* The directories that exist: the ones created by this run, and the
\* ancestors of the output directory.
is_dir(ds, l) == l \in ds \/ (l.up > 0 /\ l.comps = <<>>)

RECURSIVE walk(_, _, _)
\* The directory reached from l through parts, NoEnt when a part is missing.
walk(ds, l, parts) ==
    IF parts = <<>> THEN l
    ELSE LET nxt == loc_step(l, Head(parts))
         IN  IF is_dir(ds, nxt) THEN walk(ds, nxt, Tail(parts)) ELSE NoEnt

\* The place a path names: its last part, in the directory its other parts
\* lead to (NoEnt when that directory does not exist).
resolve(ds, path) ==
    IF path = <<>> THEN OutputRoot
    ELSE LET dir == walk(ds, OutputRoot, SubSeq(path, 1, Len(path) - 1))
         IN  IF dir = NoEnt THEN NoEnt ELSE loc_step(dir, path[Len(path)])

\* A place is inside the output directory when no ".." has led above it.
inside_root(l) == l.up = 0

\* ------------------------------------------------------------------ inputs
\* The PRC layout the program parses: 78 header bytes whose last two are
\* num_records, then num_records descriptors of 10 bytes, then the payload.
\* All integers are big-endian.
RECURSIVE pack_be(_, _)
pack_be(v, size) == IF size = 0 THEN <<>> ELSE Append(pack_be(v \div 256, size - 1), v % 256)

header_bytes(n) == [p \in 1..(HeaderSize - 2) |-> p] \o pack_be(n, 2)

desc_bytes(d) == d.name \o pack_be(d.id, 2) \o pack_be(d.offset, 4)

RECURSIVE dir_bytes(_)
dir_bytes(ds) == IF ds = <<>> THEN <<>> ELSE desc_bytes(Head(ds)) \o dir_bytes(Tail(ds))

payload_bytes(plen) == [k \in 1..plen |-> 159 + k]

\* The (name, id) pairs of the generated descriptors:
\*   NFNT 0x0001   a name of the table;
\*   tS\x01R 0x0002   a name with a byte that is not printable;
\*   ../x 0xabcd   a name with '.' and '/' bytes, an id with hex letters;
\*   a/Bc 0x00ff   a name with a '/' byte in the middle;
\*   0x20 0x7e 0x7f 0x1f 0x0a0b   the bytes at the ends of the printable range.
NamesAndIds ==
    { [name |-> <<78, 70, 78, 84>>, id |-> 1],
      [name |-> <<116, 83, 1, 82>>, id |-> 2],
      [name |-> <<46, 46, 47, 120>>, id |-> 43981],
      [name |-> <<97, 47, 66, 99>>, id |-> 255],
      [name |-> <<32, 126, 127, 31>>, id |-> 2571] }

\* The offsets of the generated descriptors of a file with n descriptors:
\* the last byte of the directory, every position of the payload, the end of
\* the largest file, and 0x01020304, whose four bytes differ.
Offsets(n) ==
    ((HeaderSize + DescSize * n - 1)..(HeaderSize + DescSize * n + MaxPayload)) \cup {16909060}

Descriptors(n) ==
    { [name |-> t.name, id |-> t.id, offset |-> o] : t \in NamesAndIds, o \in Offsets(n) }

\* input_file.name
InputName == <<"a", ".", "p", "r", "c">>

\* ------------------------------------------------------------------- state
VARIABLES
    file,              \* the bytes of input_file
    organize_by_type,  \* the argument of extract_resources
    pc,                \* the statement extract_resources is at
    pos,               \* fp.tell()
    hdr,               \* <<>> before read_prc_header, then <<the header>>
    resources,         \* the list of resource headers read so far
    file_size,         \* file_size (0 before it is assigned)
    i,                 \* index of the extraction loop
    dirs,              \* directories created by this run
    files,             \* files written by this run: place -> bytes
    announced,         \* the "Writing ..." lines printed, in order
    writes,            \* every out_fp.write of the extraction loop, in order
    warned,            \* indices of the "invalid offset, skipping" warnings
    error,             \* "" or the exception extract_resources raised
    result             \* <<>> or <<the value returned>>

vars == <<file, organize_by_type, pc, pos, hdr, resources, file_size, i,
          dirs, files, announced, writes, warned, error, result>>

NoFiles == [l \in {} |-> <<>>]

\* A complete file.
InitComplete ==
    \E n \in 0..MaxRecords, plen \in 0..MaxPayload :
        \E ds \in [1..n -> Descriptors(n)] :
            file = header_bytes(n) \o dir_bytes(ds) \o payload_bytes(plen)

\* A file that ends inside the header.
InitShortHeader ==
    \E n \in 0..MaxRecords, len \in 0..(HeaderSize - 1) :
        file = SubSeq(header_bytes(n), 1, len)

\* A file that ends inside the directory its header announces.
InitShortDirectory ==
    \E n \in 1..MaxRecords :
        \E avail \in 0..(DescSize * n - 1), d \in Descriptors(n) :
            file = header_bytes(n) \o SubSeq(dir_bytes([k \in 1..n |-> d]), 1, avail)

Init ==
    /\ InitComplete \/ InitShortHeader \/ InitShortDirectory
    /\ organize_by_type \in BOOLEAN
    /\ pc = "mkdir"
    /\ pos = 0
    /\ hdr = <<>>
    /\ resources = <<>>
    /\ file_size = 0
    /\ i = 0
    /\ dirs = {}
    /\ files = NoFiles
    /\ announced = <<>>
    /\ writes = <<>>
    /\ warned = <<>>
    /\ error = ""
    /\ result = <<>>

num_records == hdr[1].num_records

\* An exception leaves extract_resources; everything else stays as it is.
Raise(e) == pc' = "raised" /\ error' = e

\* ----------------------------------------------------------------- actions
\* output_dir.mkdir(parents=True, exist_ok=True); open(input_file, 'rb')
MakeOutputDir ==
    /\ pc = "mkdir"
    /\ dirs' = dirs \cup {OutputRoot}
    /\ pc' = "read_header"
    /\ UNCHANGED <<file, organize_by_type, pos, hdr, resources, file_size, i,
                   files, announced, writes, warned, error, result>>

\* hdr = read_prc_header(fp)
ReadPrcHeader ==
    /\ pc = "read_header"
    /\ LET data == fp_read(file, pos, HeaderSize)
       IN  /\ pos' = pos + Len(data)
           /\ IF header_complete(data)
              THEN /\ hdr' = <<[num_records |-> unpack_be(SubSeq(data, HeaderSize - 1, Len(data)))]>>
                   /\ pc' = "read_directory"
                   /\ error' = error
              ELSE /\ Raise("ValueError")
                   /\ hdr' = hdr
    /\ UNCHANGED <<file, organize_by_type, resources, file_size, i,
                   dirs, files, announced, writes, warned, result>>

\* resources.append(read_resource_header(fp)), one pass of the loop
ReadResourceHeader ==
    /\ pc = "read_directory"
    /\ Len(resources) < num_records
    /\ LET name == fp_read(file, pos, 4)
           pos1 == pos + Len(name)
           id_bytes == fp_read(file, pos1, 2)
           pos2 == pos1 + Len(id_bytes)
           offset_bytes == fp_read(file, pos2, 4)
           pos3 == pos2 + Len(offset_bytes)
       IN  IF ~unpack_accepts(id_bytes, 2)
           THEN /\ Raise("struct.error")
                /\ pos' = pos2
                /\ resources' = resources
           ELSE IF ~unpack_accepts(offset_bytes, 4)
           THEN /\ Raise("struct.error")
                /\ pos' = pos3
                /\ resources' = resources
           ELSE /\ resources' = Append(resources, [name |-> name,
                                                    id |-> unpack_be(id_bytes),
                                                    offset |-> unpack_be(offset_bytes)])
                /\ pos' = pos3
                /\ UNCHANGED <<pc, error>>
    /\ UNCHANGED <<file, organize_by_type, hdr, file_size, i,
                   dirs, files, announced, writes, warned, result>>

\* fp.seek(0, os.SEEK_END); file_size = fp.tell()
SeekEnd ==
    /\ pc = "read_directory"
    /\ Len(resources) = num_records
    /\ pos' = Len(file)
    /\ file_size' = Len(file)
    /\ i' = 0
    /\ pc' = "extract"
    /\ UNCHANGED <<file, organize_by_type, hdr, resources,
                   dirs, files, announced, writes, warned, error, result>>

\* length of resource k (0-based) of the list rs, lines 249-252
resource_length(rs, k, size) ==
    IF k < Len(rs) - 1 THEN rs[k + 2].offset - rs[k + 1].offset ELSE size - rs[k + 1].offset

\* One pass of "for i, res in enumerate(resources)".
ExtractOne ==
    /\ pc = "extract"
    /\ i < Len(resources)
    /\ LET res == resources[i + 1]
       IN  IF res.offset >= file_size
           THEN \* Warning: Resource i has invalid offset ..., skipping
                /\ warned' = Append(warned, i)
                /\ i' = i + 1
                /\ UNCHANGED <<pc, pos, dirs, files, announced, writes, error>>
           ELSE LET length == resource_length(resources, i, file_size)
                    name_str == name_str_of(res.name)
                    filename == name_str \o format_04x(res.id) \o BinSuffix
                    type_dir_name == get_resource_type_dir(name_str)
                    type_dir == path_join(output_dir, type_dir_name)
                    type_loc == resolve(dirs, type_dir)
                    \* type_dir.mkdir(exist_ok=True)
                    dirs1 == IF organize_by_type /\ type_loc # NoEnt /\ ~is_dir(dirs, type_loc)
                             THEN dirs \cup {type_loc} ELSE dirs
                    output_path == IF organize_by_type
                                   THEN path_join(type_dir, filename)
                                   ELSE path_join(output_dir, filename)
                    \* print(f"Writing {output_path} from offset ... ")
                    line == [index |-> i, name |-> res.name, id |-> res.id,
                             offset |-> res.offset, name_str |-> name_str,
                             filename |-> filename, path |-> output_path]
                    data == fp_read(file, res.offset, length)
                    target == resolve(dirs1, output_path)
                IN  IF organize_by_type /\ type_loc = NoEnt
                    THEN \* mkdir: the parent of type_dir does not exist
                         /\ Raise("FileNotFoundError")
                         /\ UNCHANGED <<pos, dirs, files, announced, writes, warned, i>>
                    ELSE IF read_raises(length)
                    THEN \* fp.seek(res.offset); fp.read(length) raises
                         /\ Raise("ValueError")
                         /\ announced' = Append(announced, line)
                         /\ pos' = res.offset
                         /\ dirs' = dirs1
                         /\ UNCHANGED <<files, writes, warned, i>>
                    ELSE IF target = NoEnt
                    THEN \* open(output_path, 'wb'): no such directory
                         /\ Raise("FileNotFoundError")
                         /\ announced' = Append(announced, line)
                         /\ pos' = res.offset + Len(data)
                         /\ dirs' = dirs1
                         /\ UNCHANGED <<files, writes, warned, i>>
                    ELSE /\ files' = (target :> data) @@ files
                         /\ announced' = Append(announced, line)
                         /\ writes' = Append(writes,
                                [index |-> i, offset |-> res.offset, length |-> length,
                                 type_dir_name |-> IF organize_by_type THEN type_dir_name ELSE <<>>,
                                 name_str |-> name_str, loc |-> target, data |-> data])
                         /\ pos' = res.offset + Len(data)
                         /\ dirs' = dirs1
                         /\ i' = i + 1
                         /\ UNCHANGED <<pc, warned, error>>
    /\ UNCHANGED <<file, organize_by_type, hdr, resources, file_size, result>>

\* The place of the header copy: output_dir / f"{input_file.name}.hdr"
header_path == path_join(output_dir, InputName \o HdrSuffix)

\* Variant of WriteHeader without fp.seek(0): 78 bytes from wherever fp is.
WriteHeader_noseek ==
    /\ pc = "extract"
    /\ i = Len(resources)
    /\ LET header_data == fp_read(file, pos, HeaderSize)
       IN  /\ files' = (resolve(dirs, header_path) :> header_data) @@ files
           /\ pos' = pos + Len(header_data)
    /\ pc' = "return"
    /\ UNCHANGED <<file, organize_by_type, hdr, resources, file_size, i,
                   dirs, announced, writes, warned, error, result>>

\* open(header_path, 'wb'); fp.seek(0); out_fp.write(fp.read(78))
WriteHeader ==
    /\ pc = "extract"
    /\ i = Len(resources)
    /\ LET header_data == fp_read(file, 0, HeaderSize)
       IN  /\ files' = (resolve(dirs, header_path) :> header_data) @@ files
           /\ pos' = Len(header_data)
    /\ pc' = "return"
    /\ UNCHANGED <<file, organize_by_type, hdr, resources, file_size, i,
                   dirs, announced, writes, warned, error, result>>

\* Variant of return_value: the number of resources that were written.
return_value_written == Len(writes)

\* return hdr.num_records
return_value == num_records

Return ==
    /\ pc = "return"
    /\ result' = <<return_value>>
    /\ pc' = "done"
    /\ UNCHANGED <<file, organize_by_type, pos, hdr, resources, file_size, i,
                   dirs, files, announced, writes, warned, error>>

Next ==
    \/ MakeOutputDir
    \/ ReadPrcHeader
    \/ ReadResourceHeader
    \/ SeekEnd
    \/ ExtractOne
    \/ WriteHeader
    \/ Return

Spec == Init /\ [][Next]_vars

\* ------------------------------------------------------------- properties
\* What the properties read off the input file itself.
NumRecordsOfFile == file[HeaderSize - 1] * 256 + file[HeaderSize]

\* read_resource_header has returned num_records times.
DirectoryDecoded == hdr # <<>> /\ Len(resources) = num_records

\* The exception came out of the extraction loop (not out of the decoding of
\* the header or of the directory).
RaisedInLoop == pc = "raised" /\ DirectoryDecoded

\* Descriptor k (0-based) has been dealt with by the extraction loop.
Processed(k) == pc \in {"extract", "return", "done"} /\ k < i

Written(k) == \E n \in DOMAIN writes : writes[n].index = k

Warned(k) == \E n \in DOMAIN warned : warned[n] = k

\* The length the specification assigns to descriptor k (0-based): the gap to
\* the next descriptor, or to the end of the file for the last one.
GapLength(k) ==
    IF k + 1 < Len(resources)
    THEN resources[k + 2].offset - resources[k + 1].offset
    ELSE Len(file) - resources[k + 1].offset

BadLength(k) ==
    GapLength(k) < 0 \/ resources[k + 1].offset + GapLength(k) > Len(file)

\* C1: a descriptor whose computed length is negative, or whose range
\* [data_offset, data_offset + length) passes the end of the file, is skipped
\* with a warning: nothing is written for it, the run does not stop at it,
\* and once the loop is past it the warning has been printed.
C1_BadLengthIsSkipped ==
    DirectoryDecoded =>
        \A k \in 0..(Len(resources) - 1) :
            BadLength(k) => /\ ~Written(k)
                            /\ ~(RaisedInLoop /\ i = k)
                            /\ Processed(k) => Warned(k)

\* C2: a descriptor whose data_offset is at or past the end of the file is
\* skipped with a warning and nothing is written for it; no exception other
\* than an I/O failure leaves the extraction loop; every descriptor whose
\* data_offset is below the file length is written to its output file when
\* the loop is past it.
C2_InvalidOffsetIsSkipped ==
    DirectoryDecoded =>
        /\ RaisedInLoop => error = "FileNotFoundError"
        /\ \A k \in 0..(Len(resources) - 1) :
              /\ resources[k + 1].offset >= Len(file) => ~Written(k) /\ (Processed(k) => Warned(k))
              /\ (resources[k + 1].offset < Len(file) /\ Processed(k)) => Written(k)

\* C3: when extract_resources has completed, the bytes written for every
\* descriptor that was not skipped are exactly the length bytes of the source
\* from data_offset on, length being the gap to the next descriptor or, for
\* the last one, to the end of the file.
C3_ExactSlice ==
    pc = "done" =>
        \A n \in DOMAIN writes :
            LET w == writes[n]
            IN  /\ w.length = GapLength(w.index)
                /\ w.length >= 0
                /\ w.offset + w.length <= Len(file)
                /\ Len(w.data) = w.length
                /\ w.data = SubSeq(file, w.offset + 1, w.offset + w.length)

\* The place of <input-file-name>.hdr in the output root.
HdrLoc == Loc(0, <<InputName \o HdrSuffix>>)

HdrCopied == HdrLoc \in DOMAIN files /\ files[HdrLoc] = SubSeq(file, 1, HeaderSize)

C5_ShortHeaderRejected ==
    Len(file) < HeaderSize =>
        /\ pc \in {"mkdir", "read_header", "raised"}
        /\ pc = "raised" => error = "ValueError"
        /\ hdr = <<>> /\ resources = <<>> /\ result = <<>>
        /\ pos <= Len(file)
        /\ DOMAIN files = {} /\ writes = <<>> /\ dirs \subseteq {OutputRoot}

C5_Witness ==
    Len(file) = HeaderSize - 1 /\ pc = "raised" /\ error = "ValueError"

\* C6: with a complete header followed by fewer than num_records * 10 bytes,
\* the decoding of the directory fails with struct.error whatever the number
\* of bytes available: only whole descriptors are ever decoded, the list is
\* never completed, and neither a resource file nor the header copy is
\* written.
C6_TruncatedDirectoryRejected ==
    (Len(file) >= HeaderSize /\ Len(file) < HeaderSize + DescSize * NumRecordsOfFile) =>
        /\ pc \in {"mkdir", "read_header", "read_directory", "raised"}
        /\ pc = "raised" => error = "struct.error"
        /\ pc = "read_directory" => Len(resources) < num_records
        /\ HeaderSize + DescSize * Len(resources) <= Len(file)
        /\ result = <<>>
        /\ DOMAIN files = {} /\ writes = <<>> /\ dirs \subseteq {OutputRoot}

C6_Witness ==
    /\ pc = "raised" /\ error = "struct.error"
    /\ Len(resources) = 1
    /\ Len(file) = HeaderSize + DescSize + 5

C8_WritesStayInOutputRoot ==
    \A n \in DOMAIN writes :
        /\ inside_root(writes[n].loc)
        /\ Len(writes[n].loc.comps) = (IF organize_by_type THEN 2 ELSE 1)

HexValue(c) == (CHOOSE d \in 1..16 : HexDigitsLower[d] = c) - 1

IsLowerHex(c) == \E d \in 1..16 : HexDigitsLower[d] = c

\* C9: the identifier is 8 characters: the 4 bytes of the name, each byte in
\* 32..126 as its ASCII character and any other as '?', then the id as 4
\* lower-case hexadecimal digits, padded with zeros; the file name is the
\* identifier followed by ".bin"; 0x74 0x53 0x01 0x52 with id 2 gives
\* tS?R0002.
C9_Identifier ==
    \A n \in DOMAIN announced :
        LET a == announced[n]
            f == a.filename
        IN  /\ Len(f) = 12 /\ Len(a.name) = 4
            /\ \A k \in 1..4 :
                  IF a.name[k] \in 32..126
                  THEN f[k] = PrintableChars[a.name[k] - 31]
                  ELSE f[k] = "?"
            /\ \A k \in 5..8 : IsLowerHex(f[k])
            /\ a.id = ((HexValue(f[5]) * 16 + HexValue(f[6])) * 16 + HexValue(f[7])) * 16 + HexValue(f[8])
            /\ SubSeq(f, 9, 12) = <<".", "b", "i", "n">>
            /\ (a.name = <<116, 83, 1, 82>> /\ a.id = 2)
                   => SubSeq(f, 1, 8) = <<"t", "S", "?", "R", "0", "0", "0", "2">>

C9_Witness ==
    \E n \in DOMAIN announced :
        /\ announced[n].name = <<46, 46, 47, 120>>
        /\ announced[n].id = 43981
        /\ \E m \in DOMAIN announced : announced[m].name = <<116, 83, 1, 82>>

\* The category the table assigns to a 4-character tag.
IsCategoryOf(dir, tag) ==
    IF tag \in DOMAIN RESOURCE_TYPE_NAMES
    THEN dir = RESOURCE_TYPE_NAMES[tag]
    ELSE /\ Len(dir) = Len(tag)
         /\ \A k \in DOMAIN tag :
               IF \E u \in 65..90 : PrintableChars[u - 31] = tag[k]
               THEN \E u \in 65..90 : PrintableChars[u - 31] = tag[k] /\ PrintableChars[u + 1] = dir[k]
               ELSE dir[k] = tag[k]

\* C10: with type organization every extracted resource lies in the
\* subdirectory of the output root named by the category of its substituted
\* tag (NFNT in fonts, a tag outside the table in its lower-case form);
\* without it no subdirectory is created and the file lies in the output
\* root.
C10_TypeDirectory ==
    /\ ~organize_by_type => dirs \subseteq {OutputRoot}
    /\ \A n \in DOMAIN writes :
          LET w == writes[n]
          IN  IF organize_by_type
              THEN /\ w.loc.up = 0 /\ Len(w.loc.comps) = 2
                   /\ IsCategoryOf(w.loc.comps[1], w.name_str)
                   /\ Loc(0, <<w.loc.comps[1]>>) \in dirs
                   /\ w.name_str = <<"N", "F", "N", "T">> => w.loc.comps[1] = <<"f", "o", "n", "t", "s">>
              ELSE w.loc.up = 0 /\ Len(w.loc.comps) = 1

====
